---- MODULE Spec2Model ----
(***************************************************************************)
(* Model of include/opaque/opaque.h: opaq::IPrivate (the verified base of  *)
(* every private instance) and opaq::PrivateAutoPtr<T> (the owning         *)
(* pointer), together with the build flags that decide whether the         *)
(* verification code is stored and whether it is asserted.                 *)
(*                                                                         *)
(* A state holds the owning pointers of a program (their ptr member and    *)
(* where each is in its lifetime), the private instances allocated so far  *)
(* (verification word, number of destructor runs), whether the process     *)
(* has been aborted, and a record of the last call made.                   *)
(***************************************************************************)
EXTENDS Integers, FiniteSets

\* ------------------------------------------------------------------ bounds
NumPtrs == 2        \* owning pointers of the program
MaxInst == 2        \* private instances the program allocates

Ptrs == 1..NumPtrs
Insts == 1..MaxInst

\* --------------------------------------------------------------- constants
\* The null pointer (T *p = 0).
Null == 0

\* 0xBEEFDEAD, kept as its two 16-bit halves <<0xBEEF, 0xDEAD>>.
OPAQ_IPRIVATE_VERIFICATION == <<48879, 57005>>

\* Another value an unsigned int can hold: what is read from a word that was
\* overwritten, or what the storage of a freed instance may hold.
Clobbered == <<0, 0>>

\* The values a read of the verification word can give.
Words == {OPAQ_IPRIVATE_VERIFICATION, Clobbered}

\* The member does not exist (#ifdef OPAQ_DEBUG is false).
NoField == <<>>

VARIABLES
    NDEBUG,         \* the macro NDEBUG is defined (read by <cassert>)
    _DEBUG,         \* the macro _DEBUG is defined
    ptr,            \* ptr[o]: PrivateAutoPtr::ptr of owning pointer o
    life,           \* life[o]: "unborn", "alive", "ended" (destructor has run,
                    \* storage still there) or "gone" (scope left)
    allocated,      \* instances 1..allocated have been constructed
    verification,   \* verification[x]: IPrivate::_privateInstVerification of x
    destroyed,      \* destroyed[x]: how many times ~IPrivate ran on x
    aborted,        \* "no"; "assert": an assertion failed; "crash": the
                    \* allocator ended the process; "doubleFree": a destructor
                    \* ran on freed storage (nothing is defined after that)
    lastOp          \* the last call: operation, pointer, argument, results

vars == <<NDEBUG, _DEBUG, ptr, life, allocated, verification, destroyed,
          aborted, lastOp>>

flags == <<NDEBUG, _DEBUG>>

\* ------------------------------------------------------------- build flags
\* #if !defined(NDEBUG) || defined(_DEBUG)  ->  #define OPAQ_DEBUG
OPAQ_DEBUG == (~NDEBUG) \/ _DEBUG

\* assert() of <cassert> evaluates its argument unless NDEBUG is defined.
AssertActive == ~NDEBUG

\* The member _privateInstVerification is declared under #ifdef OPAQ_DEBUG.
SentinelPresent == OPAQ_DEBUG

\* --------------------------------------------------------------- instances
Allocated == 1..allocated

Live(x) == x \in Allocated /\ destroyed[x] = 0

\* Faulty variant: the constructor leaves the verification word zeroed.
IPrivateInitZero == IF SentinelPresent THEN Clobbered ELSE NoField

\* IPrivate() : _privateInstVerification(OPAQ_IPRIVATE_VERIFICATION) {}
IPrivateInit == IF SentinelPresent THEN OPAQ_IPRIVATE_VERIFICATION ELSE NoField

\* unsigned int privateInstVerification() const, called through
\* reinterpret_cast<IPrivate *>(ptr): the words the call can return. For a
\* live instance that is its member; reading freed storage is undefined and
\* can give any word.
privateInstVerification(x) == IF Live(x) THEN {verification[x]} ELSE Words

Call(op, o, arg, ret, flag) ==
    [op |-> op, o |-> o, arg |-> arg, ret |-> ret, flag |-> flag]

\* A pointer within its lifetime.
Alive(o) == life[o] = "alive"

\* A pointer whose storage is still there: reset() and the destructor can be
\* run on it again after an explicit destructor call (the "later reset or
\* destructor run" of an owning pointer that was destroyed by hand).
Usable(o) == life[o] \in {"alive", "ended"}

\* ------------------------------------------------------------------- state
TypeOK ==
    /\ NDEBUG \in BOOLEAN /\ _DEBUG \in BOOLEAN
    /\ ptr \in [Ptrs -> {Null} \cup Insts]
    /\ life \in [Ptrs -> {"unborn", "alive", "ended", "gone"}]
    /\ allocated \in 0..MaxInst
    /\ verification \in [Insts -> Words \cup {NoField}]
    /\ destroyed \in [Insts -> 0..2]
    /\ aborted \in {"no", "assert", "crash", "doubleFree"}
    /\ \A o \in Ptrs : life[o] = "unborn" => ptr[o] = Null

Init ==
    /\ NDEBUG \in BOOLEAN
    /\ _DEBUG \in BOOLEAN
    /\ ptr = [o \in Ptrs |-> Null]
    /\ life = [o \in Ptrs |-> "unborn"]
    /\ allocated = 0
    /\ verification = [x \in Insts |-> NoField]
    /\ destroyed = [x \in Insts |-> 0]
    /\ aborted = "no"
    /\ lastOp = Call("start", 0, Null, Null, FALSE)

\* new Instance: the IPrivate constructor runs on fresh storage.
NewInstance ==
    /\ lastOp' = Call("new", 0, Null, allocated + 1, FALSE)
    /\ aborted = "no"
    /\ allocated < MaxInst
    /\ allocated' = allocated + 1
    /\ verification' = [verification EXCEPT ![allocated + 1] = IPrivateInit]
    /\ UNCHANGED <<flags, ptr, life, destroyed, aborted>>

\* Faulty variant: the constructor asserts the verification word of the
\* instance it is given.
ConstructValidating(o, p) ==
    /\ lastOp' = [op |-> "construct", o |-> o, arg |-> p, ret |-> Null, flag |-> FALSE]
    /\ aborted = "no"
    /\ life[o] = "unborn"
    /\ \A q \in Ptrs : q < o => life[q] # "unborn"
    /\ UNCHANGED <<flags, allocated, verification, destroyed>>
    /\ IF p # Null /\ AssertActive /\ verification[p] # OPAQ_IPRIVATE_VERIFICATION
       THEN aborted' = "assert" /\ UNCHANGED <<ptr, life>>
       ELSE /\ aborted' = "no"
            /\ ptr' = [ptr EXCEPT ![o] = p]
            /\ life' = [life EXCEPT ![o] = "alive"]

\* PrivateAutoPtr(T *p = 0) : ptr(p) {}  Pointers are numbered in the order
\* of their construction.
Construct(o, p) ==
    /\ lastOp' = Call("construct", o, p, Null, FALSE)
    /\ aborted = "no"
    /\ life[o] = "unborn"
    /\ \A q \in Ptrs : q < o => life[q] # "unborn"
    /\ ptr' = [ptr EXCEPT ![o] = p]
    /\ life' = [life EXCEPT ![o] = "alive"]
    /\ UNCHANGED <<flags, allocated, verification, destroyed, aborted>>

\* Faulty variant: the delete is left out, the instance leaks.
DeleteForgotten(x) == UNCHANGED <<destroyed, verification>> /\ aborted' = "no"

\* delete ip, for an instance that is live: the virtual destructor runs once
\* and the storage, the verification word with it, is freed.
DeleteLive(x) ==
    /\ destroyed' = [destroyed EXCEPT ![x] = destroyed[x] + 1]
    /\ verification' = [verification EXCEPT ![x] = NoField]
    /\ aborted' = "no"

\* delete ip, for an instance that was freed before (undefined behaviour): the
\* allocator ends the process, or the destructor runs once more.
DeleteFreed(x) ==
    /\ UNCHANGED verification
    /\ \/ aborted' = "crash" /\ UNCHANGED destroyed
       \/ /\ aborted' = "doubleFree"
          /\ destroyed' = [destroyed EXCEPT ![x] = destroyed[x] + 1]

\* The call made in the step returned to its caller: the process was not
\* ended inside it.
Returned == aborted' \in {"no", "doubleFree"}

\* Faulty variant: the assertion is missing.
AssertMissing(w) == FALSE

\* assert(ip->privateInstVerification() == OPAQ_IPRIVATE_VERIFICATION): the
\* assertion fails when it is compiled in and the word read is w.
AssertFails(w) == AssertActive /\ w # OPAQ_IPRIVATE_VERIFICATION

\* Faulty variant: reset() stores the new pointer and deletes nothing.
resetAssignOnly(o, stored) ==
    /\ \E q \in stored : ptr' = [ptr EXCEPT ![o] = q]
    /\ UNCHANGED <<destroyed, verification, aborted>>

\* void reset(T *p = 0): the body, where stored is the set of values ptr can
\* hold once ptr = p has been executed ({p} for every call on a live pointer).
reset(o, stored) ==
    LET ip == ptr[o] IN
    IF ip = Null
    THEN /\ \E q \in stored : ptr' = [ptr EXCEPT ![o] = q]
         /\ UNCHANGED <<destroyed, verification, aborted>>
    ELSE \E w \in privateInstVerification(ip) :
            IF AssertFails(w)
            THEN /\ aborted' = "assert"
                 /\ UNCHANGED <<ptr, destroyed, verification>>
            ELSE /\ IF Live(ip) THEN DeleteLive(ip) ELSE DeleteFreed(ip)
                 /\ IF Returned
                    THEN \E q \in stored : ptr' = [ptr EXCEPT ![o] = q]
                    ELSE ptr' = ptr

\* o.reset(p)
Reset(o, p) ==
    /\ lastOp' = Call("reset", o, p, Null, FALSE)
    /\ aborted = "no"
    /\ Usable(o)
    /\ reset(o, {p})
    /\ UNCHANGED <<flags, life, allocated>>

\* ~PrivateAutoPtr() { reset(); }  The store ptr = 0 that ends reset() is a
\* store to an object whose lifetime ends with the destructor, so a build may
\* drop it (g++ -O2 does): the member then keeps the old value, which only a
\* call made after the destructor can observe.
AfterDestructor(o) == {Null, ptr[o]}

\* o.~PrivateAutoPtr(), called explicitly: the storage stays.
Destructor(o) ==
    /\ lastOp' = Call("destructor", o, Null, Null, FALSE)
    /\ aborted = "no"
    /\ Usable(o)
    /\ reset(o, AfterDestructor(o))
    /\ life' = [life EXCEPT ![o] = IF Returned THEN "ended" ELSE life[o]]
    /\ UNCHANGED <<flags, allocated>>

\* o goes out of scope: the destructor runs and the storage of o, its member
\* ptr included, is gone.
ScopeExit(o) ==
    /\ lastOp' = Call("scopeExit", o, Null, Null, FALSE)
    /\ aborted = "no"
    /\ Usable(o)
    /\ reset(o, {Null})
    /\ life' = [life EXCEPT ![o] = IF Returned THEN "gone" ELSE life[o]]
    /\ UNCHANGED <<flags, allocated>>

\* T *get() const { return ptr; }
get(o) == ptr[o]

\* T const *getConst() const { return ptr; }
getConst(o) == ptr[o]

\* T *operator -> () const { return ptr; }  and  operator T *() const
\* (operator * returns *ptr, the same pointer as a reference)
arrow(o) == ptr[o]

\* The accessors, by name.
Accessors == {"get", "getConst", "arrow"}

access(f, o) ==
    CASE f = "get" -> get(o)
      [] f = "getConst" -> getConst(o)
      [] f = "arrow" -> arrow(o)

\* Faulty variant: the test is inverted.
isNullInverted(o) == ptr[o] # Null

\* bool isNull() const { return !ptr; }
isNull(o) == ~(ptr[o] # Null)

\* bool isValid() const (declared under #ifdef OPAQ_DEBUG), when the word
\* read is w.
isValid(o, w) == ptr[o] # Null /\ w = OPAQ_IPRIVATE_VERIFICATION

\* A call that reads the pointer and changes nothing.
Query(op, o, ret, flag) ==
    /\ lastOp' = Call(op, o, Null, ret, flag)
    /\ aborted = "no"
    /\ Alive(o)
    /\ UNCHANGED <<flags, ptr, life, allocated, verification, destroyed, aborted>>

\* o.get(), o.getConst(), o-> and the conversion to T *: the call returns
\* what the accessor called returns.
Access(o) ==
    \E r \in {access(f, o) : f \in Accessors} : Query("access", o, r, FALSE)

IsNull(o) == Query("isNull", o, Null, isNull(o))

IsValid(o) ==
    /\ OPAQ_DEBUG
    /\ IF ptr[o] = Null
       THEN Query("isValid", o, Null, isValid(o, NoField))
       ELSE \E w \in privateInstVerification(ptr[o]) :
               Query("isValid", o, Null, isValid(o, w))

\* Faulty variant: release() returns the pointer and keeps it.
releaseKeeps(o) == [ret |-> ptr[o], ptr |-> ptr]

\* T *release() { T *p = ptr; ptr = 0; return p; }
release(o) == [ret |-> ptr[o], ptr |-> [ptr EXCEPT ![o] = Null]]

Release(o) ==
    /\ lastOp' = Call("release", o, Null, release(o).ret, FALSE)
    /\ aborted = "no"
    /\ Alive(o)
    /\ ptr' = release(o).ptr
    /\ UNCHANGED <<flags, life, allocated, verification, destroyed, aborted>>

\* Faulty variants: swap() copies in one direction only.
swapCopyIn(f, a, b) == [f EXCEPT ![a] = f[b]]

swapCopyOut(f, a, b) == [f EXCEPT ![b] = f[a]]

\* void swap(PrivateAutoPtr &other) { std::swap(ptr, other.ptr); }
swap(f, a, b) == [f EXCEPT ![a] = f[b], ![b] = f[a]]

\* a.swap(b). b.swap(a) is the same exchange, so the program's calls are taken
\* with a <= b.
Swap(a, b) ==
    /\ lastOp' = Call("swap", a, b, Null, FALSE)
    /\ aborted = "no"
    /\ Alive(a) /\ Alive(b)
    /\ ptr' = swap(ptr, a, b)
    /\ UNCHANGED <<flags, life, allocated, verification, destroyed, aborted>>

\* The member _privateInstVerification is public: code outside the pointer
\* can store any word in it (the spec's "forcibly overwrite" scenario; the
\* same state arises when the storage is not an IPrivate at all).
Overwrite(x, w) ==
    /\ lastOp' = Call("overwrite", 0, x, Null, FALSE)
    /\ aborted = "no"
    /\ SentinelPresent
    /\ Live(x)
    /\ w # verification[x]
    /\ verification' = [verification EXCEPT ![x] = w]
    /\ UNCHANGED <<flags, ptr, life, allocated, destroyed, aborted>>

\* -------------------------------------------------------------- the program
\* Any raw pointer the caller can write down: null or an instance it allocated.
RawArgs == {Null} \cup Allocated

\* The raw pointers a caller that keeps to unique_ptr's contract hands over:
\* null, or a live instance no owning pointer holds.
Unowned(x) == Live(x) /\ \A q \in Ptrs : ptr[q] # x

OwnableArgs == {Null} \cup {x \in Allocated : Unowned(x)}

Calls(o) ==
    \/ Access(o)
    \/ IsNull(o)
    \/ IsValid(o)
    \/ Release(o)
    \/ Destructor(o)
    \/ ScopeExit(o)

\* Owning pointers used with any raw pointers, and still used after their
\* destructor has run.
Next ==
    \/ NewInstance
    \/ \E o \in Ptrs, p \in RawArgs : Construct(o, p)
    \/ \E o \in Ptrs, p \in RawArgs : Reset(o, p)
    \/ \E o \in Ptrs : Calls(o)
    \/ \E a \in Ptrs, b \in Ptrs : a <= b /\ Swap(a, b)

Spec == Init /\ [][Next]_vars

\* The same in a debug build (NDEBUG undefined, _DEBUG defined; without _DEBUG
\* the preprocessed header is the same text), with the verification word of
\* live instances overwritten from outside.
InitDebug == Init /\ ~NDEBUG /\ _DEBUG

NextTamper ==
    \/ Next
    \/ \E x \in Insts, w \in Words : Overwrite(x, w)

SpecTamper == InitDebug /\ [][NextTamper]_vars

\* The steps of a caller that keeps to unique_ptr's contract: only unowned
\* live instances (or null) are handed over, and no call is made on a pointer
\* whose destructor has run.
DisciplinedStep ==
    \/ NewInstance
    \/ \E o \in Ptrs, p \in OwnableArgs : Construct(o, p)
    \/ \E o \in Ptrs, p \in OwnableArgs : Alive(o) /\ Reset(o, p)
    \/ \E o \in Ptrs : Alive(o) /\ Calls(o)
    \/ \E a \in Ptrs, b \in Ptrs : Swap(a, b)

\* ------------------------------------------------------------------ claims
\* The step is a call of one of the operations ops on an owning pointer.
StepOf(ops) == lastOp'.op \in ops /\ lastOp'.o \in Ptrs

Destroyers == {"reset", "destructor", "scopeExit"}

\* A reset, an explicit destructor call or a scope exit of o.
DestroyingEvent(o) ==
    \/ \E p \in RawArgs : Reset(o, p)
    \/ Destructor(o)
    \/ ScopeExit(o)

\* o is the only owning pointer the program has constructed.
Sole(o) == \A q \in Ptrs : q # o => life[q] = "unborn"

\* A build that stores the verification word and asserts it.
Checked == SentinelPresent /\ AssertActive

\* o holds a live instance whose verification word is not the magic constant.
HoldsBad(o) ==
    /\ ptr[o] # Null
    /\ Live(ptr[o])
    /\ verification[ptr[o]] # OPAQ_IPRIVATE_VERIFICATION

\* C1, as claimed: whenever a reset, a destructor call or a scope exit is
\* applied to the program's only owning pointer while it holds an instance,
\* that instance has afterwards been destroyed exactly once (not zero times,
\* not twice).
C1_ExactlyOnce ==
    [][StepOf(Destroyers) =>
          \A o \in Ptrs :
              (Sole(o) /\ ptr[o] # Null /\ DestroyingEvent(o))
                  => destroyed'[ptr[o]] = 1]_vars

\* A reset, destructor call or scope exit of o by a caller that keeps to the
\* contract.
DisciplinedDestroy(o) ==
    /\ Alive(o)
    /\ \/ \E p \in OwnableArgs : Reset(o, p)
       \/ Destructor(o)
       \/ ScopeExit(o)

\* C1, amended: when the argument of reset is null or a live instance that no
\* owning pointer holds, and no call is made on a pointer after its destructor
\* ran, a reset, destructor call or scope exit of a pointer holding a live
\* instance x leaves x destroyed exactly once and the pointer no longer
\* holding x (so nothing later done to it deletes x again); on a pointer
\* holding null it destroys nothing.
C1_ExactlyOnceDisciplined ==
    [][StepOf(Destroyers) =>
          \A o \in Ptrs :
              DisciplinedDestroy(o) =>
                  LET x == ptr[o] IN
                  /\ (x # Null /\ Live(x)) =>
                        /\ destroyed'[x] = 1
                        /\ ~(Alive(o)' /\ ptr'[o] = x)
                        /\ aborted' = "no"
                  /\ \A z \in Insts : z # x => destroyed'[z] = destroyed[z]]_vars

\* The owning pointer's scope has ended and the instance it held is destroyed
\* once.
C1_Witness ==
    /\ lastOp.op = "scopeExit"
    /\ life[lastOp.o] = "gone"
    /\ \E x \in Allocated : destroyed[x] = 1
    /\ \A x \in Allocated : destroyed[x] <= 1
    /\ aborted = "no"

\* The effects reset(y) on o must show once it has returned, x being the
\* instance held before.
ResetPost(o, y) ==
    LET x == ptr[o] IN
    /\ ptr'[o] = y
    /\ y # Null => Live(y)'
    /\ x # Null => destroyed'[x] = destroyed[x] + 1
    /\ \A z \in Insts : z # x => destroyed'[z] = destroyed[z]

\* C2, as claimed: for any held x and any argument y, after reset(y) returns
\* the pointer holds y, y is live when non-null, and the destruction count of
\* x rose by one when x was non-null, no other count changed.
C2_ResetPostcondition ==
    [][StepOf({"reset"}) =>
          \A o \in Ptrs, y \in RawArgs :
              (Reset(o, y) /\ Returned) => ResetPost(o, y)]_vars

\* C2, amended: the same for every argument y that is null or a live instance
\* other than the one the pointer holds.
C2_ResetOther ==
    [][StepOf({"reset"}) =>
          \A o \in Ptrs, y \in RawArgs :
              (Reset(o, y) /\ Returned /\ (y = Null \/ (Live(y) /\ y # ptr[o])))
                  => ResetPost(o, y)]_vars

\* reset(y) has replaced a held instance, now destroyed, by a live y.
C2_Witness ==
    /\ lastOp.op = "reset"
    /\ aborted = "no"
    /\ lastOp.arg # Null
    /\ ptr[lastOp.o] = lastOp.arg
    /\ Live(lastOp.arg)
    /\ \E x \in Allocated : destroyed[x] = 1

\* C3: release() returns the instance held, leaves the pointer null and
\* destroys nothing; and a reset(null), destructor call or scope exit of a
\* pointer that holds null (as it does after release) destroys nothing and
\* leaves it null, so no sequence of them destroys the released instance.
C3_ReleaseTransfers ==
    [][StepOf(Destroyers \cup {"release"}) =>
          \A o \in Ptrs :
              /\ Release(o) =>
                    /\ lastOp'.ret = ptr[o]
                    /\ ptr'[o] = Null
                    /\ destroyed' = destroyed
                    /\ aborted' = "no"
              /\ (ptr[o] = Null /\ (Reset(o, Null) \/ Destructor(o) \/ ScopeExit(o)))
                    => /\ ptr'[o] = Null
                       /\ destroyed' = destroyed
                       /\ aborted' = "no"]_vars

\* release() has just handed a live instance to the caller.
C3_Witness ==
    /\ lastOp.op = "release"
    /\ lastOp.ret # Null
    /\ Live(lastOp.ret)
    /\ ptr[lastOp.o] = Null

\* C4, as claimed: no two distinct owning pointers hold the same non-null
\* instance.
C4_SingleOwnership ==
    \A a \in Ptrs, b \in Ptrs :
        (a # b /\ Alive(a) /\ Alive(b) /\ ptr[a] # Null) => ptr[a] # ptr[b]

\* The owning pointers in their lifetime hold live instances, no two of them
\* the same one.
SoleOwners ==
    \A a \in Ptrs :
        (Alive(a) /\ ptr[a] # Null) =>
            /\ Live(ptr[a])
            /\ \A b \in Ptrs : (b # a /\ Alive(b)) => ptr[b] # ptr[a]

\* C4, amended: single ownership is kept by every operation whose instance
\* argument is null or a live instance no owning pointer holds, and that is
\* not applied to a pointer whose destructor has run: a step that leads from
\* a state where the pointers hold live instances, no two the same, to a
\* state where they do not, is not such an operation.
C4_SingleOwnershipDisciplined ==
    [][(SoleOwners /\ ~SoleOwners') => ~DisciplinedStep]_vars

\* Two owning pointers hold an instance each after a swap.
C4_Witness ==
    /\ lastOp.op = "swap"
    /\ lastOp.o # lastOp.arg
    /\ ptr[lastOp.o] # Null
    /\ ptr[lastOp.arg] # Null
    /\ ptr[lastOp.o] # ptr[lastOp.arg]

\* C5: in a checked build, a reset or destruction of a pointer that holds a
\* live instance with a wrong verification word ends in an assertion failure;
\* and whenever one ends so, the instance was not deleted and the pointer
\* still holds it.
C5_SentinelViolationFatal ==
    [][StepOf(Destroyers) =>
          \A o \in Ptrs :
              /\ (Checked /\ HoldsBad(o) /\ DestroyingEvent(o)) => aborted' = "assert"
              /\ (aborted' = "assert" /\ DestroyingEvent(o)) =>
                    /\ ptr' = ptr
                    /\ destroyed' = destroyed
                    /\ verification' = verification
                    /\ life' = life]_vars

\* reset() was aborted by the assertion on a corrupted instance.
C5_Witness ==
    /\ aborted = "assert"
    /\ lastOp.op = "reset"
    /\ HoldsBad(lastOp.o)
    /\ Checked

\* C6: isNull() is true directly after default construction, reset(null) and
\* release(), false directly after construction from or reset to an instance,
\* and what isNull() returns is true exactly when the pointer holds null.
C6_IsNullTracks ==
    /\ (lastOp.op = "construct" \/ (lastOp.op = "reset" /\ aborted = "no"))
          => (isNull(lastOp.o) <=> lastOp.arg = Null)
    /\ lastOp.op = "release" => isNull(lastOp.o)
    /\ lastOp.op = "isNull" => (lastOp.flag <=> ptr[lastOp.o] = Null)

\* reset(null) has destroyed the held instance and isNull() holds.
C6_Witness ==
    /\ lastOp.op = "reset"
    /\ lastOp.arg = Null
    /\ aborted = "no"
    /\ isNull(lastOp.o)
    /\ \E x \in Allocated : destroyed[x] = 1

\* C7: a.swap(b) exchanges the two held pointers, constructs and destroys
\* nothing, and a second a.swap(b) gives back the pointers held before.
C7_SwapInvolution ==
    [][StepOf({"swap"}) =>
          \A a \in Ptrs, b \in Ptrs :
              Swap(a, b) =>
                  /\ ptr'[a] = ptr[b]
                  /\ ptr'[b] = ptr[a]
                  /\ \A q \in Ptrs : (q # a /\ q # b) => ptr'[q] = ptr[q]
                  /\ destroyed' = destroyed
                  /\ allocated' = allocated
                  /\ verification' = verification
                  /\ aborted' = "no"
                  /\ swap(ptr', a, b) = ptr]_vars

\* A swap has exchanged an instance with null.
C7_Witness ==
    /\ lastOp.op = "swap"
    /\ lastOp.o # lastOp.arg
    /\ ptr[lastOp.o] = Null
    /\ ptr[lastOp.arg] # Null

\* C8: in every combination of NDEBUG and _DEBUG the verification word is
\* stored and asserted, or neither stored nor asserted.
C8_BuildModeSwitch ==
    \/ SentinelPresent /\ AssertActive
    \/ ~SentinelPresent /\ ~AssertActive

\* C9: where the verification word is stored, every live instance carries the
\* magic constant from its construction on, whatever owning-pointer operations
\* have run, and isValid() is true for every owning pointer holding a live
\* instance.
C9_SentinelInvariant ==
    SentinelPresent =>
        /\ \A x \in Allocated : Live(x) => verification[x] = OPAQ_IPRIVATE_VERIFICATION
        /\ \A o \in Ptrs :
              (Alive(o) /\ ptr[o] # Null /\ Live(ptr[o]))
                  => \A w \in privateInstVerification(ptr[o]) : isValid(o, w)
        /\ (lastOp.op = "isValid" /\ ptr[lastOp.o] # Null /\ Live(ptr[lastOp.o]))
              => lastOp.flag

\* isValid() was called on a pointer that holds a live instance.
C9_Witness ==
    /\ lastOp.op = "isValid"
    /\ ptr[lastOp.o] # Null
    /\ Live(ptr[lastOp.o])
    /\ lastOp.flag

\* C10: in a checked build no constructor call aborts, no reset of a pointer
\* that holds null or a valid instance aborts whatever it is reset to, and no
\* accessor, release, swap, isNull or isValid aborts; a reset or destruction
\* of a pointer holding a live instance with a wrong word does abort, and
\* isValid() reports false for it before that.
C10_ValidationDeferred ==
    [][(Checked /\ lastOp'.o \in Ptrs) =>
          \A o \in Ptrs :
              lastOp'.o = o =>
                  /\ \A p \in RawArgs : Construct(o, p) => aborted' = "no"
                  /\ \A p \in RawArgs :
                        ( /\ Reset(o, p)
                          /\ ptr[o] = Null \/ Live(ptr[o])
                          /\ ~HoldsBad(o) ) => aborted' = "no"
                  /\ ( \/ Access(o)
                       \/ Release(o)
                       \/ IsNull(o)
                       \/ IsValid(o)
                       \/ \E b \in Ptrs : Swap(o, b) ) => aborted' = "no"
                  /\ (HoldsBad(o) /\ IsValid(o)) => ~lastOp'.flag
                  /\ (HoldsBad(o) /\ DestroyingEvent(o)) => aborted' = "assert"]_vars

\* An owning pointer was constructed from an instance with a wrong word, and
\* nothing aborted.
C10_Witness ==
    /\ Checked
    /\ lastOp.op = "construct"
    /\ HoldsBad(lastOp.o)
    /\ aborted = "no"
====
